---- MODULE Spec2Model ----
(***************************************************************************)
(* esp-at-rs: the AT command driver Esp32At (src/src/lib.rs) over a        *)
(* non-blocking byte transport (embedded_hal::serial::Read / Write).       *)
(*                                                                         *)
(* One invocation of a command method is a run of steps, one transport     *)
(* call (getc or putc) per step.  The transport and the module at the      *)
(* other end of the link are the environment: a transport call answers Ok, *)
(* WouldBlock or a fatal error, and the module answers each complete       *)
(* command line it receives with a reply appended to the receive stream.   *)
(* rx is the stream the module has sent; whether its next byte has arrived *)
(* when the driver reads is the transport's choice (Ok or WouldBlock).     *)
(* Bytes are their integer values (ASCII).                                 *)
(***************************************************************************)
EXTENDS Integers, Sequences, FiniteSets, TLC

VARIABLES
    rx,            \* receive stream: bytes sent by the module, not yet read
    tx,            \* transmit stream: the bytes the transmit side accepted
                   \* since the last complete line, the line the module is
                   \* receiving
    command_sets,  \* Esp32At.command_sets
    pc,            \* position of the running invocation ("idle": none runs)
    cmd,           \* the running command: [name, arg]
    plan,          \* the steps of the command body still to run after pc
    pieces,        \* write_fmt: the string pieces not yet handed to putc
    error,         \* write_command: the local `error` slot (<<>> is None)
    last,          \* read_line / ignore_line: the two-byte window
    result,        \* read_line: the accumulation buffer
    idx,           \* expect: number of bytes of data already matched
    fields,        \* get_module_revision: the lines read so far
    outcome,       \* what the last finished invocation returned
    calls,         \* number of invocations started
    \* history of the running (or last) invocation, reset when one starts
    rx0,           \* the receive stream when the invocation started
    fed,           \* bytes the module appended to rx since it started
    sent,          \* bytes the transmit side accepted in it
    linesGot,      \* per read_line/ignore_line it began: the bytes that read
    statusGot,     \* bytes read by its expect
    fault,         \* the first transport result that was not Ok, and its side
    callsAfter,    \* transport calls made after that result
    readsEarly,    \* reads made before the command line was accepted whole
    prev,          \* the invocation before it, when that one ran on the
                   \* documented reply: its command and what it returned
    chain,         \* how the invocation follows the one before it: as the
                   \* caller's retry after would-block, or after a desync
    baud           \* a BaudRate conversion: its input and what it gave so far

vars == <<rx, tx, command_sets, pc, cmd, plan, pieces, error, last,
          result, idx, fields, outcome, calls, rx0, fed, sent, linesGot,
          statusGot, fault, callsAfter, readsEarly, prev, chain, baud>>

----------------------------------------------------------------------------
(* Bounds of the model *)

\* invocations the caller makes
MaxCalls == 2

\* read_line<N>: the capacity of the line buffer (get_module_revision
\* instantiates it with heapless::consts::U64, the size of each
\* ModuleRevision field)
N == 3

\* the speeds given to BaudRate::from_speed are 0..MaxSpeed (which takes in
\* the eleven standard rates) and the documentation's 4,000,000
MaxSpeed == 115201

(* Program constants *)

CR == 13
LF == 10

CRLF == <<CR, LF>>

Rep(b, n) == [i \in 1..n |-> b]

RECURSIVE Flatten(_)
Flatten(ss) == IF ss = <<>> THEN <<>> ELSE Head(ss) \o Flatten(Tail(ss))

\* s has the two bytes CR, LF next to each other somewhere
HasCRLF(s) == \E i \in 1..(Len(s) - 1) : s[i] = CR /\ s[i + 1] = LF

IsPrefix(p, s) == Len(p) <= Len(s) /\ SubSeq(s, 1, Len(p)) = p

\* the bytes of s before its first CR LF (all of s when it has none)
RECURSIVE UntilCRLF(_)
UntilCRLF(s) ==
    IF Len(s) < 2 THEN s
    ELSE IF s[1] = CR /\ s[2] = LF THEN <<>>
    ELSE <<s[1]>> \o UntilCRLF(Tail(s))

\* number of CR LF terminated lines in s
RECURSIVE NumLines(_)
NumLines(s) ==
    IF Len(s) < 2 THEN 0
    ELSE IF s[1] = CR /\ s[2] = LF THEN 1 + NumLines(Tail(Tail(s)))
    ELSE NumLines(Tail(s))

----------------------------------------------------------------------------
(* CommandSet and the capability sets given to new *)

CommandSet == {"Wifi", "TcpIp", "Ble", "ParticleArgonExt"}

CommandSets == {{}, {"TcpIp", "Wifi"}}

(* Results.  A transport call answers [kind |-> "Ok"], "WouldBlock" or     *)
(* "Err" with a cause; a driver operation returns nb::Result: "Ok",        *)
(* "WouldBlock", or Other(Error) named by the Error variant.               *)

RxCauses == {"rxe1", "rxe2"}
TxCauses == {"txe1", "txe2"}

Res(k, c) == [kind |-> k, cause |-> c]

TransportRead == {Res("Ok", ""), Res("WouldBlock", "")} \cup {Res("Err", c) : c \in RxCauses}
TransportWrite == {Res("Ok", ""), Res("WouldBlock", "")} \cup {Res("Err", c) : c \in TxCauses}

Ret(k, c, v) == [kind |-> k, cause |-> c, value |-> v]

NoOutcome == Ret("None", "", <<>>)

\* getc with a failed read reported as a failed write
getc_as_write(res) ==
    IF res.kind = "Err" THEN Res("UartWrite", res.cause) ELSE res

\* putc that takes would-block for success
putc_swallow(res) ==
    IF res.kind = "Err" THEN Res("UartWrite", res.cause) ELSE Res("Ok", "")

\* getc: rx.read().map_err(|nb| nb.map(|cause| Error::UartRead { cause }))
getc(res) ==
    IF res.kind = "Err" THEN Res("UartRead", res.cause) ELSE res

\* putc: tx.write(byte).map_err(|nb| nb.map(|cause| Error::UartWrite { cause }))
putc(res) ==
    IF res.kind = "Err" THEN Res("UartWrite", res.cause) ELSE res

----------------------------------------------------------------------------
(* BaudRate: a variant is named by its tag; BaudOther carries its rate     *)

Standard(tag) == [variant |-> tag, n |-> 0]

Other(n) == [variant |-> "BaudOther", n |-> n]

\* from_speed with the arms of 57600 and 115200 swapped
from_speed_swapped(speed) ==
    CASE speed = 110    -> Standard("Baud110")
      [] speed = 300    -> Standard("Baud300")
      [] speed = 600    -> Standard("Baud600")
      [] speed = 1200   -> Standard("Baud1200")
      [] speed = 2400   -> Standard("Baud2400")
      [] speed = 4800   -> Standard("Baud4800")
      [] speed = 9600   -> Standard("Baud9600")
      [] speed = 19200  -> Standard("Baud19200")
      [] speed = 38400  -> Standard("Baud38400")
      [] speed = 57600  -> Standard("Baud115200")
      [] speed = 115200 -> Standard("Baud57600")
      [] OTHER          -> Other(speed)

\* BaudRate::from_speed
from_speed(speed) ==
    CASE speed = 110    -> Standard("Baud110")
      [] speed = 300    -> Standard("Baud300")
      [] speed = 600    -> Standard("Baud600")
      [] speed = 1200   -> Standard("Baud1200")
      [] speed = 2400   -> Standard("Baud2400")
      [] speed = 4800   -> Standard("Baud4800")
      [] speed = 9600   -> Standard("Baud9600")
      [] speed = 19200  -> Standard("Baud19200")
      [] speed = 38400  -> Standard("Baud38400")
      [] speed = 57600  -> Standard("Baud57600")
      [] speed = 115200 -> Standard("Baud115200")
      [] OTHER          -> Other(speed)

\* BaudRate::speed
speed(self) ==
    CASE self.variant = "Baud110"    -> 110
      [] self.variant = "Baud300"    -> 300
      [] self.variant = "Baud600"    -> 600
      [] self.variant = "Baud1200"   -> 1200
      [] self.variant = "Baud2400"   -> 2400
      [] self.variant = "Baud4800"   -> 4800
      [] self.variant = "Baud9600"   -> 9600
      [] self.variant = "Baud19200"  -> 19200
      [] self.variant = "Baud38400"  -> 38400
      [] self.variant = "Baud57600"  -> 57600
      [] self.variant = "Baud115200" -> 115200
      [] self.variant = "BaudOther"  -> self.n

\* the speeds and the variants the conversions are applied to
Speeds == (0..MaxSpeed) \cup {4000000}

StandardTags ==
    {"Baud110", "Baud300", "Baud600", "Baud1200", "Baud2400", "Baud4800",
     "Baud9600", "Baud19200", "Baud38400", "Baud57600", "Baud115200"}

BaudRates == {Standard(t) : t \in StandardTags} \cup {Other(n) : n \in {0, 9600, 4000000}}

----------------------------------------------------------------------------
(* Command lines: write_command! formats the template followed by CR LF   *)

\* the decimal digits least significant first
RECURSIVE Decimal_reversed(_)
Decimal_reversed(n) ==
    IF n < 10 THEN <<48 + n>> ELSE <<48 + (n % 10)>> \o Decimal_reversed(n \div 10)

\* Display for u32: the decimal digits, most significant first
RECURSIVE Decimal(_)
Decimal(n) ==
    IF n < 10 THEN <<48 + n>> ELSE Decimal(n \div 10) \o <<48 + (n % 10)>>

\* the pieces write_fmt hands to write_str, in order
Pieces(c) ==
    CASE c.name = "test_startup"        -> << <<65, 84>> \o CRLF >>
      [] c.name = "restart"             -> << <<65, 84, 43, 82, 83, 84>> \o CRLF >>
      [] c.name = "get_module_revision" -> << <<65, 84, 43, 71, 77, 82>> \o CRLF >>
      [] c.name = "enter_deep_sleep"    ->
            << <<65, 84, 43, 71, 83, 76, 80, 61>>, Decimal(c.arg), CRLF >>
      [] c.name = "factory_reset"       ->
            << <<65, 84, 43, 82, 69, 83, 84, 79, 82, 69>> \o CRLF >>

\* the steps of each command method after write_command!
Body(c) ==
    CASE c.name = "test_startup"        -> <<"expect">>
      [] c.name = "restart"             -> <<"expect">>
      [] c.name = "get_module_revision" -> <<"read_line", "read_line", "read_line", "expect">>
      [] c.name = "enter_deep_sleep"    -> <<"ignore_line", "expect">>
      [] c.name = "factory_reset"       -> <<"expect">>

\* expect_ok_response: expect_response("OK")
OkResponse == <<79, 75>>

----------------------------------------------------------------------------
(* Library operations the driver calls *)

Cont(b) == b >= 128 /\ b <= 191

\* core::str::from_utf8: whether the bytes are well-formed UTF-8
RECURSIVE Utf8Valid(_)
Utf8Valid(s) ==
    IF s = <<>> THEN TRUE
    ELSE LET b == s[1]
             n == Len(s)
         IN  IF b < 128 THEN Utf8Valid(Tail(s))
             ELSE IF b >= 194 /\ b <= 223
                  THEN n >= 2 /\ Cont(s[2]) /\ Utf8Valid(SubSeq(s, 3, n))
             ELSE IF b >= 224 /\ b <= 239
                  THEN /\ n >= 3
                       /\ Cont(s[2]) /\ Cont(s[3])
                       /\ (b = 224 => s[2] >= 160)
                       /\ (b = 237 => s[2] <= 159)
                       /\ Utf8Valid(SubSeq(s, 4, n))
             ELSE IF b >= 240 /\ b <= 244
                  THEN /\ n >= 4
                       /\ Cont(s[2]) /\ Cont(s[3]) /\ Cont(s[4])
                       /\ (b = 240 => s[2] >= 144)
                       /\ (b = 244 => s[2] <= 143)
                       /\ Utf8Valid(SubSeq(s, 5, n))
             ELSE FALSE

\* push that drops the item when the vector is full and reports success
push_truncating(vec, item) ==
    IF Len(vec) < N
      THEN [ok |-> TRUE, vec |-> Append(vec, item)]
      ELSE [ok |-> TRUE, vec |-> vec]

\* heapless::Vec::push: refuses the item when the vector is full
push(vec, item) ==
    IF Len(vec) < N
      THEN [ok |-> TRUE, vec |-> Append(vec, item)]
      ELSE [ok |-> FALSE, vec |-> vec]

----------------------------------------------------------------------------
(* The driver's loops, one iteration each.  r is what getc or putc         *)
(* returned and b the byte read; next tells how the iteration ends:        *)
(* "loop" (iterate again), "ok" (the function returns Ok) or "return"      *)
(* (the function returns ret, an error or would-block).                    *)

Iter(n, rt, l, v, i) == [next |-> n, ret |-> rt, last |-> l, result |-> v, idx |-> i]

\* expect that starts over on a mismatch instead of failing
expect_rescan(data, i, r, b) ==
    IF r.kind # "Ok" THEN Iter("return", Ret(r.kind, r.cause, <<>>), <<0, 0>>, <<>>, i)
    ELSE IF data[i + 1] # b THEN Iter("loop", NoOutcome, <<0, 0>>, <<>>, 0)
    ELSE IF i + 1 = Len(data) THEN Iter("ok", NoOutcome, <<0, 0>>, <<>>, i + 1)
    ELSE Iter("loop", NoOutcome, <<0, 0>>, <<>>, i + 1)

\* expect that, on a mismatch, skips to the end of the line before failing
\* (idx past the end of data marks the skipping)
expect_drain(data, i, r, b) ==
    IF r.kind # "Ok" THEN Iter("return", Ret(r.kind, r.cause, <<>>), <<0, 0>>, <<>>, i)
    ELSE IF i > Len(data) \/ data[i + 1] # b
      THEN IF b = LF
             THEN Iter("return", Ret("UnexpectedResponse", "", <<>>), <<0, 0>>, <<>>, i)
             ELSE Iter("loop", NoOutcome, <<0, 0>>, <<>>, Len(data) + 1)
    ELSE IF i + 1 = Len(data) THEN Iter("ok", NoOutcome, <<0, 0>>, <<>>, i + 1)
    ELSE Iter("loop", NoOutcome, <<0, 0>>, <<>>, i + 1)

\* expect: for &expected_byte in data { getc()?; compare }
expect(data, i, r, b) ==
    IF r.kind # "Ok" THEN Iter("return", Ret(r.kind, r.cause, <<>>), <<0, 0>>, <<>>, i)
    ELSE IF data[i + 1] # b
      THEN Iter("return", Ret("UnexpectedResponse", "", <<>>), <<0, 0>>, <<>>, i)
    ELSE IF i + 1 = Len(data) THEN Iter("ok", NoOutcome, <<0, 0>>, <<>>, i + 1)
    ELSE Iter("loop", NoOutcome, <<0, 0>>, <<>>, i + 1)

\* read_line: shift the window, getc()?, break on CR LF, else push last[0]
read_line(l, v, r, b) ==
    IF r.kind # "Ok" THEN Iter("return", Ret(r.kind, r.cause, <<>>), l, v, 0)
    ELSE LET w == <<l[2], b>> IN
         IF w = CRLF
           THEN IF Utf8Valid(v)
                  THEN Iter("ok", NoOutcome, w, v, 0)
                  ELSE Iter("return", Ret("Utf8", "Utf8Error", <<>>), w, v, 0)
         ELSE IF push(v, w[1]).ok
           THEN Iter("loop", NoOutcome, w, push(v, w[1]).vec, 0)
         ELSE Iter("return", Ret("BufferOverflow", "", <<>>), w, v, 0)

\* ignore_line that stops at a CR, whatever follows it
ignore_line_cr(l, r, b) ==
    IF r.kind # "Ok" THEN Iter("return", Ret(r.kind, r.cause, <<>>), l, <<>>, 0)
    ELSE LET w == <<l[2], b>> IN
         IF w[2] = CR THEN Iter("ok", NoOutcome, w, <<>>, 0)
         ELSE Iter("loop", NoOutcome, w, <<>>, 0)

\* ignore_line: while last != CR LF { shift the window; getc()? }
ignore_line(l, r, b) ==
    IF r.kind # "Ok" THEN Iter("return", Ret(r.kind, r.cause, <<>>), l, <<>>, 0)
    ELSE LET w == <<l[2], b>> IN
         IF w = CRLF THEN Iter("ok", NoOutcome, w, <<>>, 0)
         ELSE Iter("loop", NoOutcome, w, <<>>, 0)

\* write_str that reports fmt::Error without storing the error
write_str_forgets(r) ==
    IF r.kind # "Ok" THEN [next |-> "return", slot |-> <<>>]
    ELSE [next |-> "loop", slot |-> <<>>]

\* Writer::write_str: on a failed putc store the error and report fmt::Error
write_str(r) ==
    IF r.kind # "Ok" THEN [next |-> "return", slot |-> <<r>>]
    ELSE [next |-> "loop", slot |-> <<>>]

\* write_command's map_err: error.take().expect(...)
write_command(slot) ==
    IF slot = <<>> THEN Ret("Panic", "", <<>>)
    ELSE Ret(slot[1].kind, slot[1].cause, <<>>)

\* read_line and ignore_line run from their start on the stream s, which
\* would-blocks once it is exhausted: how the run ends and n, the number of
\* bytes it consumed
RECURSIVE Run_read_line(_, _, _, _)
Run_read_line(l, v, s, n) ==
    IF s = <<>> THEN [next |-> "WouldBlock", n |-> n]
    ELSE LET it == read_line(l, v, Res("Ok", ""), Head(s)) IN
         IF it.next = "loop" THEN Run_read_line(it.last, it.result, Tail(s), n + 1)
         ELSE [next |-> IF it.next = "ok" THEN "Ok" ELSE it.ret.kind, n |-> n + 1]

RECURSIVE Run_ignore_line(_, _, _)
Run_ignore_line(l, s, n) ==
    IF s = <<>> THEN [next |-> "WouldBlock", n |-> n]
    ELSE LET it == ignore_line(l, Res("Ok", ""), Head(s)) IN
         IF it.next = "loop" THEN Run_ignore_line(it.last, Tail(s), n + 1)
         ELSE [next |-> IF it.next = "ok" THEN "Ok" ELSE it.ret.kind, n |-> n + 1]

\* what a command returns once its last step has returned Ok
Value(c, f) ==
    IF c.name = "get_module_revision"
      THEN Ret("Ok", "", << [at_version |-> f[1], sdk_version |-> f[2],
                             compile_time |-> f[3]] >>)
      ELSE Ret("Ok", "", <<>>)

----------------------------------------------------------------------------
(* The module at the other end of the link (the protocol of the AT         *)
(* instruction set): what it may answer to a command line.                 *)

Line(content) == content \o CRLF

OkLine == Line(<<79, 75>>)
ErrorLine == Line(<<69, 82, 82, 79, 82>>)

\* line contents: "v1", "v2", "v3", an e with acute accent (two bytes), a
\* byte that is no UTF-8, and runs of "x" around the capacity
V1 == <<118, 49>>
V2 == <<118, 50>>
V3 == <<118, 51>>
Accent == <<195, 169>>
NotText == <<118, 255>>
Xs(n) == Rep(120, n)

StatusReplies == {OkLine, ErrorLine, Line(<<79, 75, 88>>)}

Revision(l1, l2, l3) == Line(l1) \o Line(l2) \o Line(l3) \o OkLine

RevisionReplies ==
    { Revision(V1, V2, V3),
      Revision(<<>>, <<>>, <<>>),
      Revision(V1, Accent, V3),
      Revision(V1, NotText, V3),
      Revision(Xs(N - 1), V2, V3),
      Revision(Xs(N), V2, V3),
      Revision(Xs(N + 1), V2, V3),
      ErrorLine }

SleepReplies == {Line(V1) \o OkLine, Line(Xs(N + 1)) \o OkLine, ErrorLine}

\* s after its first CR LF
RECURSIVE AfterCRLF(_)
AfterCRLF(s) ==
    IF Len(s) < 2 THEN <<>>
    ELSE IF s[1] = CR /\ s[2] = LF THEN Tail(Tail(s))
    ELSE AfterCRLF(Tail(s))

RECURSIVE NthLine(_, _)
NthLine(s, n) == IF n = 1 THEN UntilCRLF(s) ELSE NthLine(AfterCRLF(s), n - 1)

Replies(line) ==
    IF line \in {<<65, 84>>, <<65, 84, 43, 82, 83, 84>>,
                 <<65, 84, 43, 82, 69, 83, 84, 79, 82, 69>>}
      THEN StatusReplies
    ELSE IF line = <<65, 84, 43, 71, 77, 82>> THEN RevisionReplies
    ELSE IF IsPrefix(<<65, 84, 43, 71, 83, 76, 80, 61>>, line) THEN SleepReplies
    ELSE {ErrorLine}

\* what the module sends when its line buffer has grown to s: its answer to
\* the command line, if the last byte completed one
Answers(s) ==
    IF NumLines(s) > 0 THEN Replies(UntilCRLF(s)) ELSE {<<>>}

\* the wake-up delays the caller passes to enter_deep_sleep
WakeupDelays == {0, 1500}

----------------------------------------------------------------------------
(* The documented protocol, as the claims state it *)

RECURSIVE DropLines(_, _)
DropLines(s, n) == IF n = 0 THEN s ELSE DropLines(AfterCRLF(s), n - 1)

\* reply lines that come before the status line
ReplyLines(name) ==
    CASE name = "get_module_revision" -> 3
      [] name = "enter_deep_sleep"    -> 1
      [] OTHER                        -> 0

\* reply is the documented reply to the command: its reply lines, each text
\* that fits the capacity, then OK CR LF and nothing more
Documented(name, reply) ==
    LET k == ReplyLines(name) IN
    /\ NumLines(reply) = k + 1
    /\ NthLine(reply, k + 1) = <<79, 75>>
    /\ DropLines(reply, k + 1) = <<>>
    /\ \A i \in 1..k : Len(NthLine(reply, i)) <= N /\ Utf8Valid(NthLine(reply, i))

\* the documented command line, CR LF included
CommandLine(c) ==
    CASE c.name = "test_startup"        -> <<65, 84, 13, 10>>
      [] c.name = "restart"             -> <<65, 84, 43, 82, 83, 84, 13, 10>>
      [] c.name = "get_module_revision" -> <<65, 84, 43, 71, 77, 82, 13, 10>>
      [] c.name = "enter_deep_sleep" /\ c.arg = 0 ->
            <<65, 84, 43, 71, 83, 76, 80, 61, 48, 13, 10>>
      [] c.name = "enter_deep_sleep" /\ c.arg = 1500 ->
            <<65, 84, 43, 71, 83, 76, 80, 61, 49, 53, 48, 48, 13, 10>>
      [] c.name = "factory_reset"       ->
            <<65, 84, 43, 82, 69, 83, 84, 79, 82, 69, 13, 10>>

----------------------------------------------------------------------------
(* State *)

NoFault == [side |-> "", kind |-> "None", cause |-> ""]

NoPrev == [name |-> "", kind |-> "None"]

Idle == pc = "idle" /\ calls >= 1

\* every byte read in the invocation, in order
Got == Flatten(linesGot) \o statusGot

LastLine == linesGot[Len(linesGot)]

\* the caller's loop around would-block (nb::block!): invoking c now is a
\* retry when the last invocation was the same command, returned
\* would-block, and belongs to a chain of attempts that started on a quiet
\* link and in which the module sent nothing but documented replies
Retry(c) ==
    /\ outcome.kind = "WouldBlock"
    /\ c = cmd
    /\ chain.attempt >= 1
    /\ (fed = <<>> \/ Documented(cmd.name, fed))

\* attempt: the invocation's number in its chain (0: in none);
\* sentBefore: the bytes the transmit side accepted in the chain's earlier
\* attempts; consumed: an earlier attempt read bytes of the reply;
\* blocked: "write" when every earlier attempt blocked in writing, "read"
\* when one blocked in reading; desync: the invocation before this one
\* returned UnexpectedResponse or BufferOverflow
NoChain ==
    [attempt |-> 0, sentBefore |-> <<>>, consumed |-> FALSE, blocked |-> "",
     desync |-> FALSE]

Chained(c) ==
    [attempt    |-> IF Retry(c) THEN chain.attempt + 1
                    ELSE IF rx = <<>> /\ tx = <<>> THEN 1 ELSE 0,
     sentBefore |-> IF Retry(c) THEN chain.sentBefore \o sent ELSE <<>>,
     consumed   |-> Retry(c) /\ (chain.consumed \/ Got # <<>>),
     blocked    |-> IF Retry(c) /\ fault.side = "write" /\ chain.blocked # "read"
                      THEN "write"
                    ELSE IF Retry(c) THEN "read" ELSE "",
     desync     |-> outcome.kind \in {"UnexpectedResponse", "BufferOverflow"}]

\* the capability check of a command method: the five methods make none
permitted_gated(c, sets) == sets # {}

permitted(c, sets) == TRUE

\* the locals a line read, an expect and a command method start from
Fresh_resumed == [last |-> last, result |-> result, idx |-> idx, fields |-> fields]

Fresh == [last |-> <<0, 0>>, result |-> <<>>, idx |-> 0, fields |-> <<>>]

\* no conversion under way
NoBaud == [stage |-> "none", speed |-> 0, rate |-> Other(0), back |-> 0, again |-> Other(0)]

\* Esp32At::new
Init ==
    /\ rx = <<>> /\ tx = <<>>
    /\ command_sets \in CommandSets
    /\ pc = "idle"
    /\ cmd = [name |-> "", arg |-> 0]
    /\ plan = <<>> /\ pieces = <<>> /\ error = <<>>
    /\ last = <<0, 0>> /\ result = <<>> /\ idx = 0 /\ fields = <<>>
    /\ outcome = NoOutcome
    /\ calls = 0
    /\ rx0 = <<>> /\ fed = <<>> /\ sent = <<>> /\ linesGot = <<>>
    /\ statusGot = <<>> /\ fault = NoFault /\ callsAfter = 0
    /\ readsEarly = 0 /\ prev = NoPrev /\ chain = NoChain
    /\ baud = NoBaud

\* the caller invokes command c: the method starts with write_command!
Call(c) ==
    /\ pc = "idle"
    /\ calls < MaxCalls
    /\ calls' = calls + 1
    /\ cmd' = c
    /\ IF permitted(c, command_sets)
         THEN /\ pc' = "write_str"
              /\ plan' = Body(c)
              /\ pieces' = Pieces(c)
              /\ outcome' = NoOutcome
         ELSE /\ pc' = "idle"
              /\ plan' = <<>>
              /\ pieces' = <<>>
              /\ outcome' = Ret("CommandSetNotSupported", "", <<>>)
    /\ error' = <<>>
    /\ last' = Fresh.last /\ result' = Fresh.result /\ idx' = Fresh.idx
    /\ fields' = Fresh.fields
    /\ rx0' = rx /\ fed' = <<>> /\ sent' = <<>> /\ linesGot' = <<>>
    /\ statusGot' = <<>> /\ fault' = NoFault /\ callsAfter' = 0
    /\ readsEarly' = 0
    /\ prev' = IF rx0 = <<>> /\ fault = NoFault /\ Documented(cmd.name, fed)
                 THEN [name |-> cmd.name, kind |-> outcome.kind]
                 ELSE NoPrev
    /\ chain' = Chained(c)
    /\ UNCHANGED <<rx, tx, command_sets, baud>>

test_startup == Call([name |-> "test_startup", arg |-> 0])

restart == Call([name |-> "restart", arg |-> 0])

get_module_revision == Call([name |-> "get_module_revision", arg |-> 0])

enter_deep_sleep ==
    \E wakeup_delay_ms \in WakeupDelays :
        Call([name |-> "enter_deep_sleep", arg |-> wakeup_delay_ms])

factory_reset == Call([name |-> "factory_reset", arg |-> 0])

\* how an iteration that ended with `n` leaves the invocation; f are the
\* fields then
After(n, rt, f) ==
    CASE n = "loop"   -> pc' = pc /\ plan' = plan /\ outcome' = outcome
      [] n = "return" -> pc' = "idle" /\ plan' = <<>> /\ outcome' = rt
      [] n = "ok"     ->
            IF plan = <<>>
              THEN pc' = "idle" /\ plan' = <<>> /\ outcome' = Value(cmd, f)
              ELSE pc' = Head(plan) /\ plan' = Tail(plan) /\ outcome' = outcome

\* the history of line reads when an iteration ended with `n`
Opened(lg, n) ==
    IF n = "ok" /\ plan # <<>> /\ Head(plan) \in {"read_line", "ignore_line"}
      THEN Append(lg, <<>>)
      ELSE lg

AddLast(lg, t, b) ==
    IF t.kind = "Ok" THEN [lg EXCEPT ![Len(lg)] = Append(@, b)] ELSE lg

\* the transport answered t to a call on `side`
Transport(side, t) ==
    /\ fault' = IF fault.kind = "None" /\ t.kind # "Ok"
                  THEN [side |-> side, kind |-> t.kind, cause |-> t.cause]
                  ELSE fault
    /\ callsAfter' = IF fault.kind # "None" THEN callsAfter + 1 ELSE callsAfter
    /\ readsEarly' = IF side = "read" /\ NumLines(sent) = 0
                       THEN readsEarly + 1 ELSE readsEarly

\* one iteration of write_str's loop over the bytes write_fmt hands it
WriteStr ==
    /\ pc = "write_str"
    /\ \E t \in TransportWrite :
        LET byte == pieces[1][1]
            w    == write_str(putc(t))
            rest == IF Len(pieces[1]) = 1 THEN Tail(pieces)
                    ELSE <<Tail(pieces[1])>> \o Tail(pieces)
            n    == IF w.next = "return" THEN "fail"
                    ELSE IF rest = <<>> THEN "ok" ELSE "loop"
            tx2  == IF t.kind = "Ok" THEN Append(tx, byte) ELSE tx
        IN  /\ tx' = IF NumLines(tx2) > 0 THEN <<>> ELSE tx2
            /\ \E reply \in Answers(tx2) :
                  rx' = rx \o reply /\ fed' = fed \o reply
            /\ sent' = IF t.kind = "Ok" THEN Append(sent, byte) ELSE sent
            /\ error' = w.slot
            /\ pieces' = IF n = "loop" THEN rest ELSE <<>>
            /\ IF n = "fail"
                 THEN pc' = "write_command" /\ plan' = plan /\ outcome' = outcome
                 ELSE After(n, NoOutcome, fields)
            /\ linesGot' = Opened(linesGot, n)
            /\ Transport("write", t)
    /\ UNCHANGED <<command_sets, cmd, last, result, idx, fields, calls, rx0,
                   statusGot, prev, chain, baud>>

\* write_fmt failed: write_command returns what the slot holds
WriteCommand ==
    /\ pc = "write_command"
    /\ pc' = "idle"
    /\ plan' = <<>>
    /\ outcome' = write_command(error)
    /\ error' = <<>>
    /\ UNCHANGED <<rx, tx, command_sets, cmd, pieces, last, result,
                   idx, fields, calls, rx0, fed, sent, linesGot, statusGot,
                   fault, callsAfter, readsEarly, prev, chain, baud>>

\* the answers the receive side can give now, each with the byte read
Reads == {<<t, IF t.kind = "Ok" THEN Head(rx) ELSE 0>> :
            t \in {u \in TransportRead : u.kind = "Ok" => rx # <<>>}}

\* one iteration of read_line's loop
ReadLine ==
    /\ pc = "read_line"
    /\ \E tb \in Reads :
        LET t  == tb[1]
            b  == tb[2]
            it == read_line(last, result, getc(t), b)
            f  == IF it.next = "ok" THEN Append(fields, it.result) ELSE fields
        IN  /\ rx' = IF t.kind = "Ok" THEN Tail(rx) ELSE rx
            /\ last' = IF it.next = "ok" THEN Fresh.last ELSE it.last
            /\ result' = IF it.next = "ok" THEN Fresh.result ELSE it.result
            /\ fields' = f
            /\ After(it.next, it.ret, f)
            /\ linesGot' = Opened(AddLast(linesGot, t, b), it.next)
            /\ Transport("read", t)
    /\ UNCHANGED <<tx, command_sets, cmd, pieces, error, idx, calls,
                   rx0, fed, sent, statusGot, prev, chain, baud>>

\* one iteration of ignore_line's loop
IgnoreLine ==
    /\ pc = "ignore_line"
    /\ \E tb \in Reads :
        LET t  == tb[1]
            b  == tb[2]
            it == ignore_line(last, getc(t), b)
        IN  /\ rx' = IF t.kind = "Ok" THEN Tail(rx) ELSE rx
            /\ last' = IF it.next = "ok" THEN Fresh.last ELSE it.last
            /\ After(it.next, it.ret, fields)
            /\ linesGot' = Opened(AddLast(linesGot, t, b), it.next)
            /\ Transport("read", t)
    /\ UNCHANGED <<tx, command_sets, cmd, pieces, error, result, idx,
                   fields, calls, rx0, fed, sent, statusGot, prev, chain, baud>>

\* one iteration of expect's loop, called by expect_ok_response
Expect ==
    /\ pc = "expect"
    /\ \E tb \in Reads :
        LET t  == tb[1]
            b  == tb[2]
            it == expect(OkResponse, idx, getc(t), b)
        IN  /\ rx' = IF t.kind = "Ok" THEN Tail(rx) ELSE rx
            /\ idx' = IF it.next = "ok" THEN Fresh.idx ELSE it.idx
            /\ After(it.next, it.ret, fields)
            /\ statusGot' = IF t.kind = "Ok" THEN Append(statusGot, b) ELSE statusGot
            /\ Transport("read", t)
    /\ UNCHANGED <<tx, command_sets, cmd, pieces, error, last, result,
                   fields, calls, rx0, fed, sent, linesGot, prev, chain, baud>>

Next ==
    \/ test_startup
    \/ restart
    \/ get_module_revision
    \/ enter_deep_sleep
    \/ factory_reset
    \/ WriteStr
    \/ WriteCommand
    \/ ReadLine
    \/ IgnoreLine
    \/ Expect

Spec == Init /\ [][Next]_vars

----------------------------------------------------------------------------
(* BaudRate conversions, applied to a speed (from_speed, then speed) or to *)
(* a variant (speed, then from_speed); the driver is left as new made it   *)

Driver == <<rx, tx, command_sets, pc, cmd, plan, pieces, error, last, result,
            idx, fields, outcome, calls, rx0, fed, sent, linesGot, statusGot,
            fault, callsAfter, readsEarly, prev, chain>>

InitBaud ==
    /\ rx = <<>> /\ tx = <<>>
    /\ command_sets = {}
    /\ pc = "idle"
    /\ cmd = [name |-> "", arg |-> 0]
    /\ plan = <<>> /\ pieces = <<>> /\ error = <<>>
    /\ last = <<0, 0>> /\ result = <<>> /\ idx = 0 /\ fields = <<>>
    /\ outcome = NoOutcome
    /\ calls = 0
    /\ rx0 = <<>> /\ fed = <<>> /\ sent = <<>> /\ linesGot = <<>>
    /\ statusGot = <<>> /\ fault = NoFault /\ callsAfter = 0
    /\ readsEarly = 0 /\ prev = NoPrev /\ chain = NoChain
    /\ \/ \E n \in Speeds : baud = [NoBaud EXCEPT !.stage = "speed", !.speed = n]
       \/ \E b \in BaudRates : baud = [NoBaud EXCEPT !.stage = "rate", !.rate = b]

\* BaudRate::from_speed(n)
FromSpeed ==
    /\ baud.stage = "speed"
    /\ baud' = [baud EXCEPT !.stage = "speed_rate", !.rate = from_speed(baud.speed)]
    /\ UNCHANGED Driver

\* .speed() of what from_speed gave
SpeedOfRate ==
    /\ baud.stage = "speed_rate"
    /\ baud' = [baud EXCEPT !.stage = "speed_rate_speed", !.back = speed(baud.rate)]
    /\ UNCHANGED Driver

\* b.speed()
Speed ==
    /\ baud.stage = "rate"
    /\ baud' = [baud EXCEPT !.stage = "rate_speed", !.back = speed(baud.rate)]
    /\ UNCHANGED Driver

\* BaudRate::from_speed of what speed gave
FromSpeedOfSpeed ==
    /\ baud.stage = "rate_speed"
    /\ baud' = [baud EXCEPT !.stage = "rate_speed_rate", !.again = from_speed(baud.back)]
    /\ UNCHANGED Driver

NextBaud ==
    \/ FromSpeed
    \/ SpeedOfRate
    \/ Speed
    \/ FromSpeedOfSpeed

SpecBaud == InitBaud /\ [][NextBaud]_vars

\* the eleven standard rates, as the documentation of the variants lists them
StandardRate ==
    [Baud110 |-> 110, Baud300 |-> 300, Baud600 |-> 600, Baud1200 |-> 1200,
     Baud2400 |-> 2400, Baud4800 |-> 4800, Baud9600 |-> 9600,
     Baud19200 |-> 19200, Baud38400 |-> 38400, Baud57600 |-> 57600,
     Baud115200 |-> 115200]

----------------------------------------------------------------------------
(* C1: each command, answered with exactly its documented reply over a     *)
(* transport that never fails or blocks, returns success and leaves no     *)
(* unread reply byte in the receive stream.                                *)
C1_DocumentedReplyLeavesNothing ==
    (Idle /\ rx0 = <<>> /\ fault = NoFault /\ Documented(cmd.name, fed))
        => (outcome.kind = "Ok" /\ rx = <<>>)

(* C2: get_module_revision returns as at_version, sdk_version and          *)
(* compile_time exactly the content bytes of the first, second and third   *)
(* reply line, the CR LF removed and no byte added or dropped.             *)
C2_RevisionFieldsAreLineContents ==
    (Idle /\ cmd.name = "get_module_revision" /\ outcome.kind = "Ok")
        => /\ outcome.value[1].at_version = UntilCRLF(linesGot[1])
           /\ outcome.value[1].sdk_version = UntilCRLF(linesGot[2])
           /\ outcome.value[1].compile_time = UntilCRLF(linesGot[3])

(* C3: test_startup invoked twice in a row, the module answering each AT   *)
(* line with its own OK CR LF, returns success both times.  (prev names    *)
(* the first call only when it started on an empty receive stream, got     *)
(* the documented reply and met no transport fault.)                       *)
C3_TestStartupTwice ==
    (/\ Idle /\ calls = 2
     /\ prev.name = "test_startup" /\ cmd.name = "test_startup"
     /\ fed = <<79, 75, 13, 10>> /\ fault = NoFault)
        => (prev.kind = "Ok" /\ outcome.kind = "Ok")

(* C4: a command returns success only if its status line, the bytes from   *)
(* where the status is expected up to CR LF, is exactly O, K.              *)
C4_SuccessOnlyOnExactOk ==
    (Idle /\ rx0 = <<>> /\ outcome.kind = "Ok")
        => UntilCRLF(statusGot \o rx) = <<79, 75>>

(* C5: when a byte received where the status is expected differs from the  *)
(* expected byte, the operation fails with UnexpectedResponse at that      *)
(* byte: it is the last byte read, the bytes before it matched, and the    *)
(* rest of the stream stays unread.  UnexpectedResponse has no other cause.*)
C5_MismatchAtFirstDifference ==
    LET n == Len(statusGot)
        differs == \E i \in 1..n : i > 2 \/ statusGot[i] # <<79, 75>>[i]
    IN  /\ differs =>
            /\ pc = "idle"
            /\ outcome = Ret("UnexpectedResponse", "", <<>>)
            /\ IsPrefix(SubSeq(statusGot, 1, n - 1), <<79, 75>>)
            /\ Got \o rx = rx0 \o fed
        /\ outcome.kind = "UnexpectedResponse" => differs

C5_Witness ==
    /\ Idle /\ cmd.name = "test_startup"
    /\ rx0 = <<>> /\ fed = <<69, 82, 82, 79, 82, 13, 10>>
    /\ statusGot = <<69>>
    /\ outcome.kind = "UnexpectedResponse"
    /\ rx = <<82, 82, 79, 82, 13, 10>>

(* C6: once read_line has read more bytes than the capacity without a CR   *)
(* LF among them it has failed with BufferOverflow, at the first byte past *)
(* the capacity; and whenever it fails with BufferOverflow it has read no  *)
(* complete CR LF.                                                         *)
C6_OverflowBeforeTerminator ==
    (cmd.name = "get_module_revision" /\ linesGot # <<>>)
        => /\ (Len(LastLine) > N /\ ~HasCRLF(LastLine))
                => /\ pc = "idle"
                   /\ outcome = Ret("BufferOverflow", "", <<>>)
                   /\ Len(LastLine) = N + 1
           /\ outcome.kind = "BufferOverflow" => ~HasCRLF(LastLine)

C6_Witness ==
    /\ Idle /\ cmd.name = "get_module_revision"
    /\ linesGot = <<Xs(N + 1)>>
    /\ outcome.kind = "BufferOverflow"

(* C7: read_line on a CR LF terminated line whose content fits the         *)
(* capacity returns the Utf8 error exactly when the content is not valid   *)
(* UTF-8, and success when it is.                                          *)
C7_Utf8ExactlyWhenInvalid ==
    LET whole == LastLine \o rx
        content == UntilCRLF(whole)
    IN  (/\ Idle /\ cmd.name = "get_module_revision" /\ fault = NoFault
         /\ linesGot # <<>> /\ HasCRLF(whole) /\ Len(content) <= N)
            => /\ (outcome.kind = "Utf8") = ~Utf8Valid(content)
               /\ Utf8Valid(content) => Len(fields) = Len(linesGot)

(* C8: the bytes accepted by the transmit side in an invocation are a      *)
(* prefix of the command's line followed by CR LF, and no read is made     *)
(* before the whole line has been accepted.                                *)
C8_CommandLineBeforeReads ==
    calls >= 1
        => /\ IsPrefix(sent, CommandLine(cmd))
           /\ readsEarly = 0
           /\ (Got # <<>> \/ pc \in {"read_line", "ignore_line", "expect"})
                => sent = CommandLine(cmd)

C8_Witness ==
    /\ cmd = [name |-> "enter_deep_sleep", arg |-> 1500]
    /\ sent = <<65, 84, 43, 71, 83, 76, 80, 61, 49, 53, 48, 48, 13, 10>>
    /\ Len(Got) = 1

(* C9: once a transport call has returned would-block the invocation       *)
(* makes no further transport call and returns would-block, nothing else;  *)
(* and it returns would-block only then.                                   *)
C9_WouldBlockSurfacesAtOnce ==
    /\ fault.kind = "WouldBlock"
          => /\ callsAfter = 0
             /\ pc \in {"idle", "write_command"}
             /\ pc = "idle" => outcome = Ret("WouldBlock", "", <<>>)
    /\ outcome.kind = "WouldBlock" => fault.kind = "WouldBlock"

C9_Witness ==
    /\ Idle /\ cmd.name = "get_module_revision"
    /\ fault = [side |-> "read", kind |-> "WouldBlock", cause |-> ""]
    /\ Len(linesGot) = 2 /\ Len(LastLine) = 1
    /\ outcome.kind = "WouldBlock"

(* C10: once a transport call has failed the invocation makes no further   *)
(* transport call and returns UartRead (a failed read) or UartWrite (a     *)
(* failed write) with that cause and no payload.                           *)
C10_TransportFailureAborts ==
    /\ fault.kind = "Err"
          => /\ callsAfter = 0
             /\ pc \in {"idle", "write_command"}
             /\ pc = "idle" =>
                  outcome = Ret(IF fault.side = "read" THEN "UartRead" ELSE "UartWrite",
                                fault.cause, <<>>)
    /\ outcome.kind \in {"UartRead", "UartWrite"} => fault.kind = "Err"

C10_Witness ==
    /\ Idle /\ cmd.name = "get_module_revision"
    /\ fault = [side |-> "read", kind |-> "Err", cause |-> "rxe2"]
    /\ Len(fields) = 2
    /\ outcome = Ret("UartRead", "rxe2", <<>>)

(* C11: a caller that retries the same operation each time it returns      *)
(* would-block ends with success, when the transport never fails and the   *)
(* module sends the documented reply.  (An attempt of such a chain that    *)
(* has returned has returned success or would-block: any other return      *)
(* ends the caller's loop without success.)                                *)
C11_RetryEndsInSuccess ==
    (/\ Idle /\ chain.attempt >= 2 /\ fault.kind # "Err"
     /\ (fed = <<>> \/ Documented(cmd.name, fed)))
        => outcome.kind \in {"Ok", "WouldBlock"}

(* C12: the five commands are permitted under every capability set, the   *)
(* empty one included: none returns CommandSetNotSupported, and the        *)
(* capability set, which the driver reads nowhere but in this check,       *)
(* changes neither what a command writes nor the steps it takes.           *)
C12_AlwaysPermitted ==
    /\ outcome.kind # "CommandSetNotSupported"
    /\ calls >= 1 => \A sets \in SUBSET CommandSet : permitted(cmd, sets)
    /\ pc = "write_str" => Flatten(<<sent>> \o pieces) = CommandLine(cmd)
    /\ pc \in {"read_line", "ignore_line", "expect"}
          => /\ sent = CommandLine(cmd)
             /\ \E k \in 1..Len(Body(cmd)) :
                   <<pc>> \o plan = SubSeq(Body(cmd), k, Len(Body(cmd)))

C12_Witness ==
    /\ Idle /\ command_sets = {} /\ cmd.name = "get_module_revision"
    /\ outcome.kind = "Ok"

(* C14: read_line accumulates only received bytes that are not part of     *)
(* the terminator: it fails with BufferOverflow only on a line whose       *)
(* content exceeds N bytes, and a terminated line of well-formed text      *)
(* of at most N bytes is returned in full.                                 *)
C14_LineWithinCapacityReturned ==
    cmd.name = "get_module_revision" =>
        /\ (Idle /\ outcome.kind = "BufferOverflow")
              => ~(/\ HasCRLF(LastLine \o rx)
                   /\ Len(UntilCRLF(LastLine \o rx)) <= N)
        /\ \A i \in 1..Len(linesGot) :
              (/\ HasCRLF(linesGot[i])
               /\ Len(UntilCRLF(linesGot[i])) <= N
               /\ Utf8Valid(UntilCRLF(linesGot[i])))
                  => /\ Len(fields) >= i
                     /\ fields[i] = UntilCRLF(linesGot[i])

(* C15: a retry after would-block starts again from the first step.  It    *)
(* writes the command line again from its first byte, enters each line     *)
(* read with an empty buffer and a zeroed window, so that buffer and       *)
(* window hold bytes of this attempt only; it reads on from where the      *)
(* earlier attempt stopped, and its fields come from its own lines.        *)
C15_RetryStartsAfresh ==
    chain.attempt >= 2 =>
        /\ IsPrefix(sent, CommandLine(cmd))
        /\ pc \in {"read_line", "ignore_line", "expect"} => sent = CommandLine(cmd)
        /\ pc \in {"read_line", "ignore_line"} =>
              LET k == Len(LastLine)
                  w == <<0, 0>> \o LastLine
              IN  /\ last = SubSeq(w, k + 1, k + 2)
                  /\ pc = "read_line" => result = SubSeq(w, 2, k + 1)
        /\ pc = "expect" => idx = Len(statusGot)
        /\ Got \o rx = rx0 \o fed
        /\ \A i \in 1..Len(fields) : fields[i] = <<0>> \o UntilCRLF(linesGot[i])

C15_Witness ==
    /\ Idle /\ chain.attempt >= 2 /\ chain.consumed
    /\ cmd.name = "get_module_revision" /\ outcome.kind = "Ok"

(* C16: when the writing of a command line would-blocks and the caller     *)
(* retries until the line is written, the bytes the transmit side          *)
(* accepted over all attempts are exactly the command line, once.          *)
C16_CommandLineSentOnce ==
    (/\ chain.attempt >= 2 /\ chain.blocked = "write"
     /\ calls >= 1 /\ pc \notin {"write_str", "write_command"}
     /\ fault.side # "write")
        => chain.sentBefore \o sent = CommandLine(cmd)

(* C17: no resynchronization.  An operation that fails with                *)
(* UnexpectedResponse or BufferOverflow has read no byte after the one     *)
(* that made it fail, and the rest of the reply is still in the receive    *)
(* stream; the next operation reads those leftover bytes first.            *)
C17_NoResynchronization ==
    /\ outcome.kind = "UnexpectedResponse" =>
          LET n == Len(statusGot) IN
          /\ pc = "idle" /\ n >= 1
          /\ n <= Len(OkResponse)
          /\ IsPrefix(SubSeq(statusGot, 1, n - 1), OkResponse)
          /\ statusGot[n] # OkResponse[n]
    /\ outcome.kind = "BufferOverflow" =>
          /\ pc = "idle"
          /\ Len(LastLine) = N + 1
          /\ ~HasCRLF(LastLine)
    /\ outcome.kind \in {"UnexpectedResponse", "BufferOverflow"} =>
          /\ Got \o rx = rx0 \o fed
          /\ Len(rx) = Len(rx0) + Len(fed) - Len(Got)
    /\ chain.desync =>
          LET k == IF Len(Got) < Len(rx0) THEN Len(Got) ELSE Len(rx0) IN
          /\ SubSeq(Got, 1, k) = SubSeq(rx0, 1, k)
          /\ IsPrefix(Got, rx0 \o fed)

C17_Witness ==
    /\ Idle /\ chain.desync /\ rx0 # <<>> /\ fed # <<>>
    /\ IsPrefix(rx0, Got)

(* C18: ignore_line scans as read_line does.  On every stream on which     *)
(* read_line succeeds ignore_line succeeds too and consumes as many        *)
(* bytes: up to and including the first CR LF.  ignore_line returns only   *)
(* success, would-block or a read failure, so enter_deep_sleep never       *)
(* returns BufferOverflow or a decoding error.                             *)
C18_IgnoreLineScansAsReadLine ==
    LET r == Run_read_line(<<0, 0>>, <<>>, rx, 0)
        g == Run_ignore_line(<<0, 0>>, rx, 0)
    IN  /\ r.next = "Ok" =>
              /\ g.next = "Ok" /\ g.n = r.n
              /\ r.n = Len(UntilCRLF(rx)) + 2
        /\ g.next \in {"Ok", "WouldBlock"}
        /\ HasCRLF(rx) => g.next = "Ok" /\ g.n = Len(UntilCRLF(rx)) + 2
        /\ cmd.name = "enter_deep_sleep" =>
              /\ outcome.kind \notin {"BufferOverflow", "Utf8"}
              /\ (Idle /\ linesGot # <<>> /\ statusGot = <<>>)
                    => outcome.kind \in {"WouldBlock", "UartRead"}
              /\ statusGot # <<>> => linesGot[1] = UntilCRLF(linesGot[1]) \o CRLF

C18_Witness ==
    /\ Idle /\ cmd.name = "enter_deep_sleep" /\ outcome.kind = "Ok"
    /\ Len(UntilCRLF(linesGot[1])) > N
    /\ Run_read_line(<<0, 0>>, <<>>, rx0 \o fed, 0).next = "BufferOverflow"

(* C19: the panic in write_command is unreachable.  Whenever write_str     *)
(* reports failure the slot holds what the failing putc returned, and      *)
(* write_command returns exactly that: would-block, or UartWrite with the  *)
(* transport's cause.                                                      *)
C19_PanicUnreachable ==
    LET mapped == Res(IF fault.kind = "Err" THEN "UartWrite" ELSE fault.kind,
                      fault.cause)
    IN  /\ outcome.kind # "Panic"
        /\ pc = "write_command" =>
              /\ fault.side = "write"
              /\ error = <<mapped>>
        /\ pc # "write_command" => error = <<>>
        /\ (Idle /\ fault.side = "write") =>
              outcome = Ret(mapped.kind, mapped.cause, <<>>)

C19_Witness ==
    /\ Idle /\ fault.side = "write" /\ fault.kind = "Err"
    /\ cmd.name = "enter_deep_sleep" /\ Len(sent) >= 9

(* C13: BaudRate conversion.  Each of the eleven standard-rate variants    *)
(* converts with speed() to its rate, and from_speed of that rate gives    *)
(* the variant back; from_speed(n).speed() is n for every n; and every n   *)
(* that is not a standard rate maps to BaudOther carrying n.               *)
C13_BaudRateRoundTrip ==
    LET std == baud.rate.variant \in StandardTags IN
    /\ (baud.stage \in {"rate_speed", "rate_speed_rate"} /\ std)
          => baud.back = StandardRate[baud.rate.variant]
    /\ (baud.stage = "rate_speed_rate" /\ std) => baud.again = baud.rate
    /\ baud.stage = "speed_rate_speed" => baud.back = baud.speed
    /\ baud.stage \in {"speed_rate", "speed_rate_speed"} =>
          IF \E t \in StandardTags : StandardRate[t] = baud.speed
            THEN std /\ StandardRate[baud.rate.variant] = baud.speed
            ELSE baud.rate = [variant |-> "BaudOther", n |-> baud.speed]

C13_Witness ==
    /\ baud.stage = "rate_speed_rate"
    /\ baud.rate = [variant |-> "Baud57600", n |-> 0]
    /\ baud.back = 57600

====
